---- MODULE Spec2Model ----
(***************************************************************************)
(* A model of the embedded-telnet library (src/EmbeddedTelnet.c and        *)
(* include/EmbeddedTelnet.h): the session, the byte-level reader with its  *)
(* in-place compaction, the automatic replies and the two writers.         *)
(*                                                                         *)
(* Bytes are the naturals 0..255.  A C array or buffer is a sequence; the  *)
(* C index k is the sequence index k+1.  The option bitset (uint64_t) is   *)
(* the set of the indices of its set bits.                                 *)
(***************************************************************************)
EXTENDS Integers, Sequences, FiniteSets, TLC

\* session   the telnet_session_t
\* call      the last library call and its arguments
\* data      the caller's buffer after the call
\* ret       the value the call returned
\* events    the callback and writer invocations of the call, in order
\* undefined the kinds of undefined behaviour the call ran into
\* sent      the application data of the last telnet_write
VARIABLES session, call, data, ret, events, undefined, sent

vars == <<session, call, data, ret, events, undefined, sent>>

(***************************************************************************)
(* Program constants (include/EmbeddedTelnet.h).                           *)
(***************************************************************************)
TELNET_SE == 240
TELNET_NOP == 241
TELNET_AYT == 246
TELNET_SB == 250
TELNET_WILL == 251
TELNET_WONT == 252
TELNET_DO == 253
TELNET_DONT == 254
TELNET_IAC == 255

TELNET_SE_IS == 0
TELNET_SE_SEND == 1

TELNET_OPTION_BINARY == 0
TELNET_OPTION_ECHO == 1
TELNET_OPTION_SUPPRESS_GO_AHEAD == 3
TELNET_OPTION_TERMINAL_TYPE == 24
TELNET_OPTION_FORWARD_X == 49
TELNET_OPTION_MAX == 50

\* sizeof(packet.subnegotiation_data), the local buffer of telnet_write_packet,
\* and the width of the option bitset.
SUBNEGOTIATION_DATA_SIZE == 64
WRITE_BUFFER_SIZE == 80
OPTIONS_BITS == 64

\* size_t arithmetic wraps; 2^16 is the least width C99 allows, and the
\* reader's index only ever wraps by one step below zero and back.
SIZE_MODULUS == 65536

\* A pointer is the set of what it points to: NULL is the empty set.
NULL == {}

Ptr(x) == {x}

Deref(p) == CHOOSE x \in p : TRUE

STATE_READY == "READY"
STATE_IN_COMMAND == "IN_COMMAND"
STATE_IN_OPTION == "IN_OPTION"
STATE_IN_SUBNEGOTIATION_TYPE == "IN_SUBNEGOTIATION_TYPE"
STATE_IN_SUBNEGOTIATION_VALUE == "IN_SUBNEGOTIATION_VALUE"
STATE_IN_SB_IAC == "IN_SB_IAC"

telnet_parse_state_t ==
  {STATE_READY, STATE_IN_COMMAND, STATE_IN_OPTION, STATE_IN_SUBNEGOTIATION_TYPE,
   STATE_IN_SUBNEGOTIATION_VALUE, STATE_IN_SB_IAC}

(***************************************************************************)
(* Small helpers on sequences.                                             *)
(***************************************************************************)
Min(a, b) == IF a < b THEN a ELSE b

Fill(n, b) == [k \in 1..n |-> b]

RECURSIVE Concat(_)
Concat(ss) == IF ss = <<>> THEN <<>> ELSE Head(ss) \o Concat(Tail(ss))

SeqsUpTo(S, n) == UNION {[1..k -> S] : k \in 0..n}

(***************************************************************************)
(* The bit macros.  A shift by an index that is not below the width of the *)
(* word is undefined in C: the caller decides what such a read yields.     *)
(***************************************************************************)
bit_set(bits, index) == bits \cup {index}

\* A clear of every bit, for comparison with bit_clear.
bit_clear_of_every_index(bits, index) == {}

bit_clear(bits, index) == bits \ {index}

\* A test of the neighbouring bit, for comparison with bit_get.
bit_get_of_the_next_index(bits, index) == (index + 1) \in bits

bit_get(bits, index) == index \in bits

(***************************************************************************)
(* telnet_init_packet.  subnegotiation_data is kept as the sequence of the *)
(* bytes stored below subnegotiation_length (at most 64 of them): the      *)
(* array cells above it are the zeros of the memset, since the only code   *)
(* that lowers the length is this function.                                *)
(***************************************************************************)
\* A packet initialisation leaving the type SEND, for comparison with
\* telnet_init_packet.
telnet_init_packet_of_type_SEND ==
  [command |-> TELNET_NOP,
   option |-> TELNET_OPTION_BINARY,
   subnegotiation_type |-> TELNET_SE_SEND,
   subnegotiation_length |-> 0,
   subnegotiation_data |-> <<>>]

telnet_init_packet ==
  [command |-> TELNET_NOP,
   option |-> TELNET_OPTION_BINARY,
   subnegotiation_type |-> TELNET_SE_IS,
   subnegotiation_length |-> 0,
   subnegotiation_data |-> <<>>]

\* The byte of the array at C index k.
subnegotiation_byte(packet, k) ==
  IF k < Len(packet.subnegotiation_data) THEN packet.subnegotiation_data[k + 1] ELSE 0

(***************************************************************************)
(* telnet_init: the session after initialisation.                          *)
(***************************************************************************)
telnet_init ==
  [state |-> STATE_READY,
   packet |-> telnet_init_packet,
   options |-> {},
   subnegotiation_options |-> [o \in 0..(TELNET_OPTION_MAX - 1) |-> NULL],
   user_data |-> NULL]

(***************************************************************************)
(* Undefined behaviour.  A call that runs into it gets its outcome from a  *)
(* record ub the caller chooses:                                           *)
(*   ub.options  the option bitset after a store past subnegotiation_data  *)
(*               (the field that follows the packet in telnet_session_t),  *)
(*   ub.bit      the value of a shift by 64 or more,                       *)
(*   ub.reply    what a read past subnegotiation_options yields,           *)
(*   ub.byte     a byte read past the end of an array.                     *)
(***************************************************************************)
UB_DATA_OVERFLOW == "store past subnegotiation_data"
UB_SHIFT == "shift by 64 or more"
UB_TABLE_READ == "read past subnegotiation_options"
UB_REPLY_OVERFLOW == "copy past response_packet.subnegotiation_data"
UB_BUFFER_OVERFLOW == "store past the buffer of telnet_write_packet"

(***************************************************************************)
(* The events of a call.                                                   *)
(***************************************************************************)
DispatchEvent(packet) == [kind |-> "dispatch", packet |-> packet]

CallbackEvent(packet, result) == [kind |-> "callback", packet |-> packet, result |-> result]

WriterEvent(span) == [kind |-> "writer", span |-> span]

\* The callbacks a caller may supply: none, or one that answers by the packet.
CallbackResult(callback, packet) ==
  CASE Deref(callback) = "accept" -> TRUE
    [] Deref(callback) = "reject" -> FALSE
    [] Deref(callback) = "reject_sb" -> packet.command # TELNET_SB

(***************************************************************************)
(* telnet_write_packet: the span handed to the writer, and the undefined   *)
(* behaviour met while building it.                                        *)
(***************************************************************************)
\* A serialisation of the command alone, for comparison with
\* write_packet_span.
write_packet_span_of_the_command_alone(packet, ub) == <<TELNET_IAC, packet.command>>

write_packet_span(packet, ub) ==
  LET head == <<TELNET_IAC, packet.command>>
      n == packet.subnegotiation_length
      copied == [k \in 1..n |-> IF k <= SUBNEGOTIATION_DATA_SIZE
                                  THEN subnegotiation_byte(packet, k - 1)
                                  ELSE ub.byte]
  IN  CASE packet.command \in {TELNET_DO, TELNET_DONT, TELNET_WILL, TELNET_WONT} ->
             head \o <<packet.option>>
        [] packet.command = TELNET_SB ->
             head \o <<packet.option, packet.subnegotiation_type>> \o copied
                  \o <<TELNET_IAC, TELNET_SE>>
        [] OTHER -> head

write_packet_undefined(packet) ==
  IF packet.command = TELNET_SB /\ packet.subnegotiation_length + 6 > WRITE_BUFFER_SIZE
    THEN {UB_BUFFER_OVERFLOW}
    ELSE {}

telnet_write_packet(sess, packet, writer, ub) ==
  IF sess = NULL \/ packet = NULL \/ writer = NULL
    THEN [events |-> <<>>, undefined |-> {}]
    ELSE [events |-> <<WriterEvent(write_packet_span(Deref(packet), ub))>>,
          undefined |-> write_packet_undefined(Deref(packet))]

(***************************************************************************)
(* The option registry and the user data.  The setters give the session    *)
(* after the call; sess is what a non-null session pointer points to.      *)
(***************************************************************************)
telnet_get_option(sess, option, ub) ==
  IF option < OPTIONS_BITS THEN bit_get(sess.options, option) ELSE ub.bit

telnet_set_option(sess, option, value) ==
  IF value
    THEN [sess EXCEPT !.options = bit_set(@, option)]
    ELSE [sess EXCEPT !.options = bit_clear(@, option)]

\* The loop reads the bits from the first named option up and stores nothing.
telnet_supported_options(sess, option) == sess

telnet_get_subnegotiation_option(sess, option, ub) ==
  IF option < TELNET_OPTION_MAX THEN sess.subnegotiation_options[option] ELSE ub.reply

telnet_set_subnegotiation_option(sess, option, value) ==
  [sess EXCEPT !.subnegotiation_options[option] = value]

telnet_get_user_data(sess) == sess.user_data

telnet_set_user_data(sess, user_data) == [sess EXCEPT !.user_data = user_data]

(***************************************************************************)
(* _handle_incomming_packet.  response_packet is the reply the switch      *)
(* builds (NULL when it builds none), dispatch_undefined the undefined     *)
(* behaviour on the way; the function itself adds the callback, whose      *)
(* answer decides whether the reply is built and written at all.           *)
(***************************************************************************)
\* A response repeating the received command, for comparison with
\* negotiation_response.
negotiation_response_repeating_the_command(packet, command) ==
  Ptr([telnet_init_packet EXCEPT !.command = packet.command, !.option = packet.option])

negotiation_response(packet, command) ==
  Ptr([telnet_init_packet EXCEPT !.command = command, !.option = packet.option])

subnegotiation_response(packet, reply) ==
  Ptr([telnet_init_packet EXCEPT
         !.command = TELNET_SB,
         !.option = packet.option,
         !.subnegotiation_type = TELNET_SE_IS,
         !.subnegotiation_length = Len(reply),
         !.subnegotiation_data = SubSeq(reply, 1, Min(Len(reply), SUBNEGOTIATION_DATA_SIZE))])

\* A response refusing whatever was received, for comparison with
\* response_packet.
response_packet_refusing_every_command(sess, ub) ==
  negotiation_response(sess.packet, TELNET_WONT)

response_packet(sess, ub) ==
  LET packet == sess.packet
  IN  CASE packet.command = TELNET_WILL ->
             IF telnet_get_option(sess, packet.option, ub)
               THEN negotiation_response(packet, TELNET_DO)
               ELSE negotiation_response(packet, TELNET_DONT)
        [] packet.command = TELNET_WONT -> negotiation_response(packet, TELNET_DONT)
        [] packet.command = TELNET_DO ->
             IF telnet_get_option(sess, packet.option, ub)
               THEN negotiation_response(packet, TELNET_WILL)
               ELSE negotiation_response(packet, TELNET_WONT)
        [] packet.command = TELNET_DONT -> negotiation_response(packet, TELNET_WONT)
        [] packet.command = TELNET_SB ->
             IF packet.subnegotiation_type = TELNET_SE_SEND
               THEN LET subnegotiation_option ==
                          telnet_get_subnegotiation_option(sess, packet.option, ub)
                    IN  IF subnegotiation_option # NULL
                          THEN subnegotiation_response(packet, Deref(subnegotiation_option))
                          ELSE NULL
               ELSE NULL
        [] OTHER -> NULL

response_overflows(response) ==
  response # NULL /\ Deref(response).subnegotiation_length > SUBNEGOTIATION_DATA_SIZE

dispatch_undefined(sess, ub) ==
  LET packet == sess.packet
  IN  (IF packet.command \in {TELNET_WILL, TELNET_DO} /\ packet.option >= OPTIONS_BITS
         THEN {UB_SHIFT} ELSE {})
      \cup
      (IF packet.command = TELNET_SB /\ packet.subnegotiation_type = TELNET_SE_SEND
          /\ packet.option >= TELNET_OPTION_MAX
         THEN {UB_TABLE_READ} ELSE {})
      \cup
      (IF response_overflows(response_packet(sess, ub)) THEN {UB_REPLY_OVERFLOW} ELSE {})

\* A handler answering whatever the callback returned, for comparison with
\* handled.
handled_answering_regardless(sess, called, automatic_response, written, ub) ==
  [events |-> <<DispatchEvent(sess.packet)>> \o called \o written.events,
   undefined |-> dispatch_undefined(sess, ub) \cup written.undefined]

\* What the function has done once the callback has answered.
handled(sess, called, automatic_response, written, ub) ==
  IF ~automatic_response
    THEN [events |-> <<DispatchEvent(sess.packet)>> \o called, undefined |-> {}]
    ELSE [events |-> <<DispatchEvent(sess.packet)>> \o called \o written.events,
          undefined |-> dispatch_undefined(sess, ub) \cup written.undefined]

\* A handler that sends its reply before it asks the callback, for
\* comparison with handle_incomming_packet.
handle_incomming_packet_answering_before_asking(sess, writer, callback, ub) ==
  LET written == telnet_write_packet(Ptr(sess), response_packet(sess, ub), writer, ub)
  IN  [events |-> <<DispatchEvent(sess.packet)>> \o written.events
                    \o (IF callback # NULL
                          THEN <<CallbackEvent(sess.packet, CallbackResult(callback, sess.packet))>>
                          ELSE <<>>),
       undefined |-> dispatch_undefined(sess, ub) \cup written.undefined]

handle_incomming_packet(sess, writer, callback, ub) ==
  IF callback # NULL
    THEN handled(sess,
                 <<CallbackEvent(sess.packet, CallbackResult(callback, sess.packet))>>,
                 CallbackResult(callback, sess.packet),
                 telnet_write_packet(Ptr(sess), response_packet(sess, ub), writer, ub),
                 ub)
    ELSE handled(sess, <<>>, TRUE,
                 telnet_write_packet(Ptr(sess), response_packet(sess, ub), writer, ub),
                 ub)

(***************************************************************************)
(* _delete_uint8_tacter: the memmove shifts the bytes above index down by  *)
(* one and leaves the last byte of the old length where it was.            *)
(***************************************************************************)
delete_uint8_tacter(buffer, length, index) ==
  IF index >= length
    THEN [data |-> buffer, length |-> length]
    ELSE [data |-> [k \in 1..Len(buffer) |->
                      IF k - 1 >= index /\ k - 1 < length - 1
                        THEN buffer[k + 1] ELSE buffer[k]],
          length |-> length - 1]

(***************************************************************************)
(* The reader.  r is the state of one telnet_read call inside its loop:    *)
(* the session, the buffer, new_length, the index i, and what the call has *)
(* done so far.                                                            *)
(***************************************************************************)
\* A deletion that leaves the index where it is, for comparison with deleted.
deleted_without_stepping_back(r, d) ==
  [r EXCEPT !.data = d.data, !.new_length = d.length]

deleted(r, d) ==
  [r EXCEPT !.data = d.data, !.new_length = d.length, !.i = (r.i - 1) % SIZE_MODULUS]

TELNET_DELETE_CHARACTER(r) == deleted(r, delete_uint8_tacter(r.data, r.new_length, r.i))

set_state(r, state) == [r EXCEPT !.session.state = state]

\* session->packet.subnegotiation_data[session->packet.subnegotiation_length++] = c
append_subnegotiation_data(r, c, ub) ==
  LET n == r.session.packet.subnegotiation_length
  IN  IF n < SUBNEGOTIATION_DATA_SIZE
        THEN [r EXCEPT !.session.packet.subnegotiation_data = Append(@, c),
                       !.session.packet.subnegotiation_length = n + 1]
        ELSE [r EXCEPT !.session.packet.subnegotiation_length = n + 1,
                       !.session.options = ub.options,
                       !.undefined = @ \cup {UB_DATA_OVERFLOW}]

dispatched(r, h) == [r EXCEPT !.events = @ \o h.events, !.undefined = @ \cup h.undefined]

dispatch(r, writer, callback, ub) ==
  dispatched(r, handle_incomming_packet(r.session, writer, callback, ub))

read_READY(r, c) ==
  IF c = TELNET_IAC
    THEN set_state(TELNET_DELETE_CHARACTER(r), STATE_IN_COMMAND)
    ELSE r

\* The command byte c has been stored in r and is not TELNET_IAC: it is deleted.
read_command(r, c, writer, callback, ub) ==
  IF c \in {TELNET_DO, TELNET_DONT, TELNET_WILL, TELNET_WONT}
    THEN set_state(r, STATE_IN_OPTION)
  ELSE IF c = TELNET_SB
    THEN set_state(r, STATE_IN_SUBNEGOTIATION_TYPE)
  ELSE set_state(dispatch(r, writer, callback, ub), STATE_READY)

\* A reader that takes the second IAC of IAC IAC for a command byte.
read_IN_COMMAND_deleting_the_escaped_IAC(r, c, writer, callback, ub) ==
  read_command(TELNET_DELETE_CHARACTER([r EXCEPT !.session.packet.command = c]),
               c, writer, callback, ub)

read_IN_COMMAND(r, c, writer, callback, ub) ==
  IF c = TELNET_IAC
    THEN set_state([r EXCEPT !.session.packet.command = c], STATE_READY)
    ELSE read_command(TELNET_DELETE_CHARACTER([r EXCEPT !.session.packet.command = c]),
                      c, writer, callback, ub)

set_option(r, c) == [r EXCEPT !.session.packet.option = c]

set_subnegotiation_type(r, c) == [r EXCEPT !.session.packet.subnegotiation_type = c]

read_IN_OPTION(r, c, writer, callback, ub) ==
  set_state(dispatch(set_option(TELNET_DELETE_CHARACTER(r), c), writer, callback, ub),
            STATE_READY)

\* A reader taking the byte after SB for the option, for comparison with
\* read_IN_SUBNEGOTIATION_TYPE.
read_IN_SUBNEGOTIATION_TYPE_storing_the_option(r, c) ==
  set_state(set_option(TELNET_DELETE_CHARACTER(r), c), STATE_IN_SUBNEGOTIATION_VALUE)

read_IN_SUBNEGOTIATION_TYPE(r, c) ==
  set_state(set_subnegotiation_type(TELNET_DELETE_CHARACTER(r), c),
            STATE_IN_SUBNEGOTIATION_VALUE)

read_IN_SUBNEGOTIATION_VALUE(r, c, ub) ==
  IF c = TELNET_IAC
    THEN set_state(TELNET_DELETE_CHARACTER(r), STATE_IN_SB_IAC)
    ELSE append_subnegotiation_data(TELNET_DELETE_CHARACTER(r), c, ub)

init_packet(r) == [r EXCEPT !.session.packet = telnet_init_packet]

read_IN_SB_IAC(r, c, writer, callback, ub) ==
  IF c = TELNET_IAC
    THEN TELNET_DELETE_CHARACTER(
           set_state(append_subnegotiation_data(r, TELNET_IAC, ub),
                     STATE_IN_SUBNEGOTIATION_VALUE))
  ELSE IF c = TELNET_SE
    THEN TELNET_DELETE_CHARACTER(
           set_state(dispatch(r, writer, callback, ub), STATE_READY))
  ELSE set_state(init_packet(dispatch(r, writer, callback, ub)), STATE_IN_COMMAND)

\* The body of the for loop for the byte at index i.
read_byte(r, writer, callback, ub) ==
  LET c == r.data[r.i + 1]
      state == r.session.state
  IN  CASE state = STATE_READY -> read_READY(r, c)
        [] state = STATE_IN_COMMAND -> read_IN_COMMAND(r, c, writer, callback, ub)
        [] state = STATE_IN_OPTION -> read_IN_OPTION(r, c, writer, callback, ub)
        [] state = STATE_IN_SUBNEGOTIATION_TYPE -> read_IN_SUBNEGOTIATION_TYPE(r, c)
        [] state = STATE_IN_SUBNEGOTIATION_VALUE -> read_IN_SUBNEGOTIATION_VALUE(r, c, ub)
        [] state = STATE_IN_SB_IAC -> read_IN_SB_IAC(r, c, writer, callback, ub)

\* for (size_t i = 0; i < new_length; i++) { ... }
\* i++ at the end of an iteration.
read_next(r) == [r EXCEPT !.i = (r.i + 1) % SIZE_MODULUS, !.steps = @ + 1]

RECURSIVE read_loop(_, _, _, _)
read_loop(r, writer, callback, ub) ==
  IF r.i < r.new_length
    THEN read_loop(read_next(read_byte(r, writer, callback, ub)), writer, callback, ub)
    ELSE r

(***************************************************************************)
(* telnet_read: sess and buffer are pointers.  The result holds the        *)
(* session and the buffer after the call, the returned length, the events, *)
(* the undefined behaviour met and the number of loop iterations.          *)
(***************************************************************************)
read_return(r) ==
  [session |-> Ptr(r.session), data |-> Ptr(r.data), ret |-> r.new_length,
   events |-> r.events, undefined |-> r.undefined, steps |-> r.steps]

\* A reader returning 0 for every invalid argument, for comparison with
\* telnet_read.
telnet_read_returning_0_without_session(sess, buffer, length, callback, writer, ub) ==
  IF buffer = NULL \/ length = 0 \/ sess = NULL
    THEN [session |-> sess, data |-> buffer, ret |-> 0, events |-> <<>>,
          undefined |-> {}, steps |-> 0]
  ELSE read_return(read_loop([session |-> Deref(sess), data |-> Deref(buffer),
                              new_length |-> length, i |-> 0, events |-> <<>>,
                              undefined |-> {}, steps |-> 0],
                             writer, callback, ub))

\* A reader that starts every call in READY, for comparison with telnet_read.
telnet_read_starting_in_READY(sess, buffer, length, callback, writer, ub) ==
  IF buffer = NULL \/ length = 0
    THEN [session |-> sess, data |-> buffer, ret |-> 0, events |-> <<>>,
          undefined |-> {}, steps |-> 0]
  ELSE IF sess = NULL
    THEN [session |-> sess, data |-> buffer, ret |-> length, events |-> <<>>,
          undefined |-> {}, steps |-> 0]
  ELSE read_return(read_loop([session |-> [Deref(sess) EXCEPT !.state = STATE_READY],
                              data |-> Deref(buffer),
                              new_length |-> length, i |-> 0, events |-> <<>>,
                              undefined |-> {}, steps |-> 0],
                             writer, callback, ub))

telnet_read(sess, buffer, length, callback, writer, ub) ==
  IF buffer = NULL \/ length = 0
    THEN [session |-> sess, data |-> buffer, ret |-> 0, events |-> <<>>,
          undefined |-> {}, steps |-> 0]
  ELSE IF sess = NULL
    THEN [session |-> sess, data |-> buffer, ret |-> length, events |-> <<>>,
          undefined |-> {}, steps |-> 0]
  ELSE read_return(read_loop([session |-> Deref(sess), data |-> Deref(buffer),
                              new_length |-> length, i |-> 0, events |-> <<>>,
                              undefined |-> {}, steps |-> 0],
                             writer, callback, ub))

(***************************************************************************)
(* telnet_write: the writer calls, in order.                               *)
(***************************************************************************)
\* w is the state of the loop: start, new_length, the index i and the calls.
RECURSIVE write_loop(_, _, _)
write_loop(w, buffer, length) ==
  IF w.i < length
    THEN LET c == buffer[w.i + 1]
             new_length == w.new_length + 1
         IN  IF c = TELNET_IAC
               THEN write_loop(
                      [start |-> w.i + 1, new_length |-> 0, i |-> w.i + 1,
                       events |-> w.events
                         \o <<WriterEvent(SubSeq(buffer, w.start + 1, w.start + new_length)),
                              WriterEvent(<<TELNET_IAC, TELNET_IAC>>)>>],
                      buffer, length)
               ELSE write_loop([w EXCEPT !.new_length = new_length, !.i = w.i + 1],
                               buffer, length)
    ELSE w

\* A last call made only for a run that is not empty, for comparison with
\* write_rest.
write_rest_unless_empty(w, buffer) ==
  IF w.new_length = 0
    THEN w.events
    ELSE w.events \o <<WriterEvent(SubSeq(buffer, w.start + 1, w.start + w.new_length))>>

\* The call after the loop.
write_rest(w, buffer) ==
  w.events \o <<WriterEvent(SubSeq(buffer, w.start + 1, w.start + w.new_length))>>

telnet_write(sess, buffer, length, writer) ==
  IF sess = NULL \/ buffer = NULL \/ length = 0 \/ writer = NULL
    THEN <<>>
    ELSE write_rest(write_loop([start |-> 0, new_length |-> 0, i |-> 0, events |-> <<>>],
                               Deref(buffer), length),
                    Deref(buffer))

(***************************************************************************)
(* The library calls as actions on the state.                              *)
(***************************************************************************)
\* The outcomes a call that runs into undefined behaviour may have.
UBOutcomes(sess) ==
  [options : {sess.options, {}, {TELNET_OPTION_ECHO}},
   bit : BOOLEAN,
   reply : {NULL, Ptr(<<TELNET_SE_SEND>>)},
   byte : {0, TELNET_IAC}]

\* The outcome in which undefined behaviour changes nothing.
UBNone(sess) == [options |-> sess.options, bit |-> FALSE, reply |-> NULL, byte |-> 0]

NoBuffer == NULL

Returned(op, args) == [op |-> op, args |-> args]

\* The first ret bytes of the buffer: the payload telnet_read leaves.
Payload == SubSeq(Deref(data), 1, ret)

EventsOf(kind) == SelectSeq(events, LAMBDA e : e.kind = kind)

TelnetInit ==
  /\ session' = telnet_init
  /\ call' = Returned("telnet_init", <<>>)
  /\ data' = NoBuffer
  /\ ret' = 0
  /\ events' = <<>>
  /\ undefined' = {}
  /\ sent' = sent

TelnetSetOption(option, value) ==
  /\ session' = telnet_set_option(session, option, value)
  /\ call' = Returned("telnet_set_option", [option |-> option, value |-> value])
  /\ data' = NoBuffer
  /\ ret' = 0
  /\ events' = <<>>
  /\ undefined' = {}
  /\ sent' = sent

TelnetSupportedOptions(named) ==
  /\ session' = telnet_supported_options(session, Head(named))
  /\ call' = Returned("telnet_supported_options", [options |-> named])
  /\ data' = NoBuffer
  /\ ret' = 0
  /\ events' = <<>>
  /\ undefined' = {}
  /\ sent' = sent

TelnetSetSubnegotiationOption(option, value) ==
  /\ session' = telnet_set_subnegotiation_option(session, option, value)
  /\ call' = Returned("telnet_set_subnegotiation_option",
                      [option |-> option, value |-> value])
  /\ data' = NoBuffer
  /\ ret' = 0
  /\ events' = <<>>
  /\ undefined' = {}
  /\ sent' = sent

TelnetSetUserData(user_data) ==
  /\ session' = telnet_set_user_data(session, user_data)
  /\ call' = Returned("telnet_set_user_data", [user_data |-> user_data])
  /\ data' = NoBuffer
  /\ ret' = 0
  /\ events' = <<>>
  /\ undefined' = {}
  /\ sent' = sent

\* telnet_read(&session, buffer, length, callback, writer) on the bytes input.
ReadOutcomes(input, callback, writer) ==
  IF telnet_read(Ptr(session), Ptr(input), Len(input), callback, writer,
                 UBNone(session)).undefined = {}
    THEN {UBNone(session)}
    ELSE UBOutcomes(session)

ReadReturns(r, input, callback, writer) ==
  /\ session' = Deref(r.session)
  /\ call' = Returned("telnet_read",
                      [input |-> input, callback |-> callback, writer |-> writer,
                       state |-> session.state, steps |-> r.steps])
  /\ data' = r.data
  /\ ret' = r.ret
  /\ events' = r.events
  /\ undefined' = r.undefined
  /\ sent' = sent

TelnetRead(input, callback, writer) ==
  \E ub \in ReadOutcomes(input, callback, writer) :
    ReadReturns(telnet_read(Ptr(session), Ptr(input), Len(input), callback, writer, ub),
                input, callback, writer)

\* telnet_read(sess, buffer, length, callback, writer) with sess NULL or
\* &session, buffer NULL or the caller's bytes, and any length up to theirs.
CallOutcomes(sess, buffer, length, callback, writer) ==
  IF telnet_read(sess, buffer, length, callback, writer, UBNone(session)).undefined = {}
    THEN {UBNone(session)}
    ELSE UBOutcomes(session)

CallReturns(r, sess, buffer, length, callback, writer) ==
  /\ session' = IF sess = NULL THEN session ELSE Deref(r.session)
  /\ call' = Returned("telnet_read",
                      [session |-> sess, buffer |-> buffer, length |-> length,
                       callback |-> callback, writer |-> writer,
                       state |-> session.state, steps |-> r.steps])
  /\ data' = r.data
  /\ ret' = r.ret
  /\ events' = r.events
  /\ undefined' = r.undefined
  /\ sent' = sent

TelnetReadCall(sess, buffer, length, callback, writer) ==
  \E ub \in CallOutcomes(sess, buffer, length, callback, writer) :
    CallReturns(telnet_read(sess, buffer, length, callback, writer, ub),
                sess, buffer, length, callback, writer)

\* telnet_read on the next bytes of a stream.  The caller keeps the bytes
\* still to come (rest, NULL when there are none) and, of the reads before,
\* the bytes it gave, the payload it got back and the events (earlier).
StreamReturns(r, input, rest, earlier, callback, writer) ==
  /\ session' = Deref(r.session)
  /\ call' = Returned("telnet_read",
                      [input |-> input, callback |-> callback, writer |-> writer,
                       state |-> session.state, steps |-> r.steps,
                       rest |-> rest, earlier |-> earlier])
  /\ data' = r.data
  /\ ret' = r.ret
  /\ events' = r.events
  /\ undefined' = r.undefined
  /\ sent' = sent

TelnetReadOfStream(input, rest, earlier, callback, writer) ==
  \E ub \in ReadOutcomes(input, callback, writer) :
    StreamReturns(telnet_read(Ptr(session), Ptr(input), Len(input), callback, writer, ub),
                  input, rest, earlier, callback, writer)

\* telnet_write(&session, input, length, writer).
TelnetWrite(input, writer) ==
  /\ session' = session
  /\ call' = Returned("telnet_write", [input |-> input, writer |-> writer])
  /\ data' = Ptr(input)
  /\ ret' = 0
  /\ events' = telnet_write(Ptr(session), Ptr(input), Len(input), writer)
  /\ undefined' = {}
  /\ sent' = input

\* telnet_write_packet(&session, &packet, writer).
TelnetWritePacket(packet, writer) ==
  /\ session' = session
  /\ call' = Returned("telnet_write_packet", [packet |-> packet, writer |-> writer])
  /\ data' = NoBuffer
  /\ ret' = 0
  /\ events' = telnet_write_packet(Ptr(session), Ptr(packet), writer, UBNone(session)).events
  /\ undefined' =
       telnet_write_packet(Ptr(session), Ptr(packet), writer, UBNone(session)).undefined
  /\ sent' = sent

(***************************************************************************)
(* What the specifications share.                                          *)
(***************************************************************************)
Writer == Ptr("writer")

CannedReply == <<120>>

\* The session the application has set up before the first read: the options
\* of supported marked, CannedReply registered for the options of replies.
Configured(supported, replies) ==
  [telnet_init EXCEPT
     !.options = supported,
     !.subnegotiation_options =
       [o \in 0..(TELNET_OPTION_MAX - 1) |-> IF o \in replies THEN Ptr(CannedReply) ELSE NULL]]

\* The caller holds its arguments and has not called yet.
Caller(args) == Returned("caller", args)

Idle ==
  /\ data = NoBuffer
  /\ ret = 0
  /\ events = <<>>
  /\ undefined = {}
  /\ sent = <<>>

IsRead == call.op = "telnet_read"

(***************************************************************************)
(* Spec: the reader on the bytes of one buffer.  The application has       *)
(* initialised the session and holds a buffer of at most MaxInput bytes of *)
(* WireBytes received from the peer; it calls telnet_read on it, with or   *)
(* without a callback.                                                     *)
(***************************************************************************)
MaxInput == 5

\* TELNET_SE_SEND is also the option ECHO and, in state READY, a payload byte.
WireBytes == {TELNET_IAC, TELNET_SE, TELNET_SB, TELNET_DO, TELNET_SE_SEND}

Init ==
  /\ session = telnet_init
  /\ \E input \in SeqsUpTo(WireBytes, MaxInput), callback \in {NULL, Ptr("accept")} :
       call = Caller([input |-> input, callback |-> callback])
  /\ Idle

ReadInput ==
  /\ call.op = "caller"
  /\ TelnetRead(call.args.input, call.args.callback, Writer)

Next == ReadInput

Spec == Init /\ [][Next]_vars

(***************************************************************************)
(* The payload of a byte stream by the wire format: what is left when      *)
(* every control sequence is taken out.  IAC IAC is the byte 255; IAC and  *)
(* DO, DONT, WILL or WONT take an option byte; IAC SB takes the option     *)
(* byte and all bytes up to IAC SE, IAC IAC among them being data; IAC     *)
(* and any other byte is a two-byte command.  A subnegotiation that meets  *)
(* IAC and a byte other than IAC and SE ends there, the two bytes opening  *)
(* the next control sequence.  A control sequence the stream ends in the   *)
(* middle of is taken out as far as it goes.                               *)
(***************************************************************************)
Drop(s, n) == SubSeq(s, n + 1, Len(s))

RECURSIVE ApplicationPayload(_, _)
ApplicationPayload(s, in_subnegotiation) ==
  IF s = <<>> THEN <<>>
  ELSE IF in_subnegotiation
    THEN IF s[1] # TELNET_IAC THEN ApplicationPayload(Drop(s, 1), TRUE)
         ELSE IF Len(s) = 1 THEN <<>>
         ELSE IF s[2] = TELNET_IAC THEN ApplicationPayload(Drop(s, 2), TRUE)
         ELSE IF s[2] = TELNET_SE THEN ApplicationPayload(Drop(s, 2), FALSE)
         ELSE ApplicationPayload(s, FALSE)
  ELSE IF s[1] # TELNET_IAC THEN <<s[1]>> \o ApplicationPayload(Drop(s, 1), FALSE)
  ELSE IF Len(s) = 1 THEN <<>>
  ELSE IF s[2] = TELNET_IAC THEN <<TELNET_IAC>> \o ApplicationPayload(Drop(s, 2), FALSE)
  ELSE IF s[2] \in {TELNET_DO, TELNET_DONT, TELNET_WILL, TELNET_WONT}
    THEN ApplicationPayload(Drop(s, 3), FALSE)
  ELSE IF s[2] = TELNET_SB THEN ApplicationPayload(Drop(s, 3), TRUE)
  ELSE ApplicationPayload(Drop(s, 2), FALSE)

\* C2: telnet_read on a session in state READY returns the length of the
\* input's application payload and leaves exactly that payload, in order, in
\* the first returned-length bytes of the buffer.
C2_CompactionLeavesThePayload ==
  (IsRead /\ call.args.state = STATE_READY)
    => /\ ret = Len(ApplicationPayload(call.args.input, FALSE))
       /\ Payload = ApplicationPayload(call.args.input, FALSE)

\* The inputs in which a subnegotiation is cut short by IAC and a byte that is
\* neither IAC nor SE: the reader has passed through IN_SB_IAC's last branch.
RECURSIVE Interrupted(_, _)
Interrupted(s, in_subnegotiation) ==
  IF Len(s) < 2 THEN FALSE
  ELSE IF in_subnegotiation
    THEN IF s[1] # TELNET_IAC THEN Interrupted(Drop(s, 1), TRUE)
         ELSE IF s[2] = TELNET_IAC THEN Interrupted(Drop(s, 2), TRUE)
         ELSE IF s[2] = TELNET_SE THEN Interrupted(Drop(s, 2), FALSE)
         ELSE TRUE
  ELSE IF s[1] # TELNET_IAC THEN Interrupted(Drop(s, 1), FALSE)
  ELSE IF s[2] \in {TELNET_DO, TELNET_DONT, TELNET_WILL, TELNET_WONT}
    THEN Interrupted(Drop(s, 3), FALSE)
  ELSE IF s[2] = TELNET_SB THEN Interrupted(Drop(s, 3), TRUE)
  ELSE Interrupted(Drop(s, 2), FALSE)

\* The compaction is right on every input of the specification in which no
\* subnegotiation is cut short.
CompactionOfUninterrupted ==
  (IsRead /\ call.args.state = STATE_READY /\ ~Interrupted(call.args.input, FALSE))
    => /\ ret = Len(ApplicationPayload(call.args.input, FALSE))
       /\ Payload = ApplicationPayload(call.args.input, FALSE)

\* The input holds IAC IAC at k and k+1 and no other IAC.
EscapedIACAt(input, k) ==
  /\ k \in 1..(Len(input) - 1)
  /\ input[k] = TELNET_IAC
  /\ input[k + 1] = TELNET_IAC
  /\ \A j \in 1..Len(input) : j \notin {k, k + 1} => input[j] # TELNET_IAC

Without(input, k) == SubSeq(input, 1, k - 1) \o SubSeq(input, k + 1, Len(input))

\* C9: when telnet_read in state READY meets IAC IAC inside otherwise plain
\* data, one 255 is left at that place, the bytes around it are unchanged,
\* neither the callback nor the writer is invoked (no packet is dispatched)
\* and the parse state is READY afterwards.
C9_EscapedIACPassesThrough ==
  \A k \in 1..MaxInput :
    (IsRead /\ call.args.state = STATE_READY /\ EscapedIACAt(call.args.input, k))
      => /\ ret = Len(call.args.input) - 1
         /\ Payload = Without(call.args.input, k)
         /\ events = <<>>
         /\ session.state = STATE_READY

C9_Witness ==
  /\ IsRead
  /\ call.args.callback # NULL
  /\ call.args.input = <<TELNET_SE_SEND, TELNET_IAC, TELNET_IAC, TELNET_DO>>
  /\ Payload = <<TELNET_SE_SEND, TELNET_IAC, TELNET_DO>>
  /\ events = <<>>

\* C10: whenever the reader has left READY for IN_COMMAND on an IAC byte, the
\* session's packet holds the defaults: NOP, BINARY, IS and length 0.
C10_PacketIsDefaultAtCycleStart ==
  session.state = STATE_IN_COMMAND
    => /\ session.packet.command = TELNET_NOP
       /\ session.packet.option = TELNET_OPTION_BINARY
       /\ session.packet.subnegotiation_type = TELNET_SE_IS
       /\ session.packet.subnegotiation_length = 0

(***************************************************************************)
(* SpecSubnegotiation: the reader on one subnegotiation.  The application  *)
(* has registered CannedReply for some of RequestOptions; the peer sends   *)
(* either the request IAC SB O SEND IAC SE or IAC SB O IS followed by up   *)
(* to MaxExcess bytes more than subnegotiation_data holds, ended by        *)
(* IAC SE or not ended.                                                    *)
(***************************************************************************)
MaxExcess == 2

RequestOptions == {TELNET_OPTION_BINARY, TELNET_OPTION_ECHO, TELNET_OPTION_TERMINAL_TYPE}

SubnegotiationRequest(option) ==
  <<TELNET_IAC, TELNET_SB, option, TELNET_SE_SEND, TELNET_IAC, TELNET_SE>>

SubnegotiationOf(option, n, tail) ==
  <<TELNET_IAC, TELNET_SB, option, TELNET_SE_IS>> \o Fill(n, 120) \o tail

SubnegotiationInputs ==
  {SubnegotiationRequest(option) : option \in RequestOptions}
  \cup {SubnegotiationOf(TELNET_OPTION_TERMINAL_TYPE, n, tail) :
          n \in 0..(SUBNEGOTIATION_DATA_SIZE + MaxExcess),
          tail \in {<<>>, <<TELNET_IAC, TELNET_SE>>}}

InitSubnegotiation ==
  /\ \E replies \in SUBSET RequestOptions : session = Configured({}, replies)
  /\ \E input \in SubnegotiationInputs, callback \in {NULL, Ptr("accept")} :
       call = Caller([input |-> input, callback |-> callback])
  /\ Idle

ReadSubnegotiation ==
  /\ call.op = "caller"
  /\ TelnetRead(call.args.input, call.args.callback, Writer)

NextSubnegotiation == ReadSubnegotiation

SpecSubnegotiation == InitSubnegotiation /\ [][NextSubnegotiation]_vars

\* C1: the packet's subnegotiation_length never exceeds the 64 bytes of
\* subnegotiation_data, and no append of the reader stores at an index of 64
\* or more.
C1_SubnegotiationDataWithinCapacity ==
  /\ session.packet.subnegotiation_length <= SUBNEGOTIATION_DATA_SIZE
  /\ UB_DATA_OVERFLOW \notin undefined

\* C8: on a freshly initialised session and without a callback, reading
\* IAC SB O SEND IAC SE makes exactly one writer call, IAC SB O IS <reply>
\* IAC SE, when a reply is registered for O, and no writer call when none is.
C8_SubnegotiationRequestIsAnswered ==
  \A option \in RequestOptions :
    (IsRead /\ call.args.callback = NULL
            /\ call.args.input = SubnegotiationRequest(option))
      => IF session.subnegotiation_options[option] # NULL
           THEN EventsOf("writer") =
                  <<WriterEvent(<<TELNET_IAC, TELNET_SB, option, TELNET_SE_IS>>
                                \o Deref(session.subnegotiation_options[option])
                                \o <<TELNET_IAC, TELNET_SE>>)>>
           ELSE EventsOf("writer") = <<>>

(***************************************************************************)
(* SpecWrite: the application writes data with telnet_write and the peer,  *)
(* a session of the same library, reads what the writer was handed.        *)
(***************************************************************************)
MaxData == 4

DataBytes == {0, 97, TELNET_IAC}

InitWrite ==
  /\ session = telnet_init
  /\ \E input \in SeqsUpTo(DataBytes, MaxData) \ {<<>>} :
       call = Caller([input |-> input])
  /\ Idle

WriteData ==
  /\ call.op = "caller"
  /\ TelnetWrite(call.args.input, Writer)

\* The bytes of all writer calls of the last operation, in order.
Written == Concat([k \in 1..Len(EventsOf("writer")) |-> EventsOf("writer")[k].span])

ReadBack ==
  /\ call.op = "telnet_write"
  /\ TelnetRead(Written, NULL, Writer)

NextWrite == WriteData \/ ReadBack

SpecWrite == InitWrite /\ [][NextWrite]_vars

\* The data with every 0xFF doubled.
RECURSIVE Escaped(_)
Escaped(bytes) ==
  IF bytes = <<>> THEN <<>>
  ELSE (IF Head(bytes) = TELNET_IAC THEN <<TELNET_IAC, TELNET_IAC>> ELSE <<Head(bytes)>>)
       \o Escaped(Tail(bytes))

\* C3: reading back what telnet_write emitted for the data D leaves exactly D
\* as the payload, dispatches no packet and leaves the parse state READY.
C3_WriteReadRoundTrip ==
  (IsRead /\ sent # <<>>)
    => /\ Payload = sent
       /\ events = <<>>
       /\ session.state = STATE_READY

\* C4: the concatenation of the spans telnet_write hands to the writer is the
\* data with each 0xFF replaced by 0xFF 0xFF and every other byte unchanged.
C4_WriteDoublesEachIAC ==
  call.op = "telnet_write" => Written = Escaped(sent)

(***************************************************************************)
(* SpecNegotiate: the application marks options supported or unsupported,  *)
(* then the peer sends an option negotiation IAC <command> <option>, read  *)
(* without a callback.                                                     *)
(***************************************************************************)
MarkedOptions == {TELNET_OPTION_BINARY, TELNET_OPTION_TERMINAL_TYPE, TELNET_OPTION_FORWARD_X}

NegotiationCommands == {TELNET_WILL, TELNET_WONT, TELNET_DO, TELNET_DONT}

Negotiation(command, option) == <<TELNET_IAC, command, option>>

InitNegotiate ==
  /\ session = telnet_init
  /\ call = Caller([callback |-> NULL])
  /\ Idle

MarkOption ==
  /\ ~IsRead
  /\ \E option \in MarkedOptions, value \in BOOLEAN : TelnetSetOption(option, value)

ReadNegotiation ==
  /\ ~IsRead
  /\ \E command \in NegotiationCommands, option \in 0..(TELNET_OPTION_MAX - 1) :
       TelnetRead(Negotiation(command, option), NULL, Writer)

NextNegotiate == MarkOption \/ ReadNegotiation

SpecNegotiate == InitNegotiate /\ [][NextNegotiate]_vars

\* The one writer call carrying IAC <command> <option>.
Answered(command, option) ==
  EventsOf("writer") = <<WriterEvent(Negotiation(command, option))>>

ReadOf(input) == IsRead /\ call.args.callback = NULL /\ call.args.input = input

\* C5: without a callback and for an option O in 0..49, reading IAC WILL O
\* makes exactly one writer call, IAC DO O if O's bit is set in the session's
\* options and IAC DONT O if not; reading IAC DO O makes exactly one writer
\* call, IAC WILL O if the bit is set and IAC WONT O if not.
C5_NegotiationAnsweredBySupport ==
  \A option \in 0..(TELNET_OPTION_MAX - 1) :
    /\ ReadOf(Negotiation(TELNET_WILL, option))
         => Answered(IF option \in session.options THEN TELNET_DO ELSE TELNET_DONT, option)
    /\ ReadOf(Negotiation(TELNET_DO, option))
         => Answered(IF option \in session.options THEN TELNET_WILL ELSE TELNET_WONT, option)

C5_Witness ==
  /\ ReadOf(Negotiation(TELNET_WILL, TELNET_OPTION_FORWARD_X))
  /\ session.options = {TELNET_OPTION_FORWARD_X}
  /\ Answered(TELNET_DO, TELNET_OPTION_FORWARD_X)

\* C6: without a callback, reading IAC WONT O makes exactly one writer call,
\* IAC DONT O, and reading IAC DONT O exactly one, IAC WONT O, whether or not
\* O's bit is set.
C6_RefusalAnsweredByRefusal ==
  \A option \in 0..(TELNET_OPTION_MAX - 1) :
    /\ ReadOf(Negotiation(TELNET_WONT, option)) => Answered(TELNET_DONT, option)
    /\ ReadOf(Negotiation(TELNET_DONT, option)) => Answered(TELNET_WONT, option)

C6_Witness ==
  /\ ReadOf(Negotiation(TELNET_WONT, TELNET_OPTION_TERMINAL_TYPE))
  /\ TELNET_OPTION_TERMINAL_TYPE \in session.options
  /\ Answered(TELNET_DONT, TELNET_OPTION_TERMINAL_TYPE)

(***************************************************************************)
(* SpecDispatch: the peer sends up to MaxPackets control sequences in one  *)
(* buffer; the application has marked ECHO supported or not, registered    *)
(* replies, and reads with one of the callbacks or none.                   *)
(***************************************************************************)
MaxPackets == 2

DispatchOptions == {TELNET_OPTION_BINARY, TELNET_OPTION_ECHO}

ControlSequences ==
  {<<TELNET_IAC, TELNET_NOP>>}
  \cup {Negotiation(command, option) :
          command \in NegotiationCommands, option \in DispatchOptions}
  \cup {SubnegotiationRequest(option) : option \in DispatchOptions}

Callbacks == {NULL, Ptr("accept"), Ptr("reject"), Ptr("reject_sb")}

InitDispatch ==
  /\ \E supported \in SUBSET {TELNET_OPTION_ECHO}, replies \in SUBSET DispatchOptions :
       session = Configured(supported, replies)
  /\ \E sequences \in SeqsUpTo(ControlSequences, MaxPackets) \ {<<>>},
        callback \in Callbacks :
       call = Caller([input |-> Concat(sequences), callback |-> callback])
  /\ Idle

ReadSequences ==
  /\ call.op = "caller"
  /\ TelnetRead(call.args.input, call.args.callback, Writer)

NextDispatch == ReadSequences

SpecDispatch == InitDispatch /\ [][NextDispatch]_vars

\* The callback's invocation at position k of the log returned false.
Rejected(k) == events[k].kind = "callback" /\ ~events[k].result

\* C7: when a callback is supplied and returns false for a packet, no writer
\* call is made for that packet: in the log of a read, a callback invocation
\* that returned false is followed by the next packet's dispatch or nothing.
C7_RejectedPacketIsNotAnswered ==
  \A k \in 1..Len(events) :
    Rejected(k) => (k = Len(events) \/ events[k + 1].kind = "dispatch")

\* The callback rejects a subnegotiation request the handler would have
\* answered, after a negotiation it accepted and the handler answered.
C7_Witness ==
  /\ IsRead
  /\ call.args.callback = Ptr("reject_sb")
  /\ \E k \in 1..Len(events) :
       /\ Rejected(k)
       /\ events[k].packet.command = TELNET_SB
       /\ events[k].packet.subnegotiation_type = TELNET_SE_SEND
       /\ session.subnegotiation_options[events[k].packet.option] # NULL
  /\ EventsOf("writer") # <<>>

(***************************************************************************)
(* SpecOptions: the application sets and clears option bits with           *)
(* telnet_set_option and names supported options with                      *)
(* telnet_supported_options.  Any of the 50 options is set or cleared      *)
(* while the bits set are among MarkedOptions.                             *)
(***************************************************************************)
MaxNamed == 2

InitOptions ==
  /\ session = telnet_init
  /\ call = Caller(<<>>)
  /\ Idle

SetOption ==
  /\ session.options \subseteq MarkedOptions
  /\ \E option \in 0..(TELNET_OPTION_MAX - 1), value \in BOOLEAN :
       TelnetSetOption(option, value)

NameSupportedOptions ==
  \E named \in SeqsUpTo(MarkedOptions, MaxNamed) \ {<<>>} : TelnetSupportedOptions(named)

NextOptions == SetOption \/ NameSupportedOptions

SpecOptions == InitOptions /\ [][NextOptions]_vars

\* C11: after telnet_supported_options(session, O1, ..., On) every named
\* option is reported supported by telnet_get_option.
C11_NamedOptionsAreSupported ==
  call.op = "telnet_supported_options"
    => \A k \in 1..Len(call.args.options) :
         telnet_get_option(session, call.args.options[k], UBNone(session))

\* C12: for every option O in 0..49 and boolean v, after
\* telnet_set_option(session, O, v) telnet_get_option(session, O) is v and
\* telnet_get_option(session, P) is what it was for every other option P, so
\* the last write to an option wins.
C12_SetOptionThenGetOption ==
  [][call'.op = "telnet_set_option"
       => /\ telnet_get_option(session', call'.args.option, UBNone(session'))
               = call'.args.value
          /\ \A other \in (0..(TELNET_OPTION_MAX - 1)) \ {call'.args.option} :
               telnet_get_option(session', other, UBNone(session'))
                 = telnet_get_option(session, other, UBNone(session))]_vars

C12_Witness ==
  /\ call = Returned("telnet_set_option",
                     [option |-> TELNET_OPTION_FORWARD_X, value |-> FALSE])
  /\ session.options = {TELNET_OPTION_BINARY, TELNET_OPTION_TERMINAL_TYPE}

(***************************************************************************)
(* SpecInit: telnet_init on a session in use.  The application marks ECHO, *)
(* registers a reply and user data, reads input that stops in the middle   *)
(* of a control sequence, and initialises the session again at any point.  *)
(***************************************************************************)
PartialInputs ==
  {<<TELNET_IAC>>,
   <<TELNET_IAC, TELNET_DO>>,
   <<TELNET_IAC, TELNET_DO, TELNET_OPTION_ECHO>>,
   <<TELNET_IAC, TELNET_SB>>,
   <<TELNET_IAC, TELNET_SB, TELNET_OPTION_ECHO>>,
   <<TELNET_IAC, TELNET_SB, TELNET_OPTION_ECHO, 120>>,
   <<TELNET_IAC, TELNET_SB, TELNET_OPTION_ECHO, 120, TELNET_IAC>>}

InitInit ==
  /\ session = telnet_init
  /\ call = Caller(<<>>)
  /\ Idle

SetUp ==
  \/ TelnetSetOption(TELNET_OPTION_ECHO, TRUE)
  \/ TelnetSetSubnegotiationOption(TELNET_OPTION_ECHO, Ptr(CannedReply))
  \/ TelnetSetUserData(Ptr("user"))

ReadPartial ==
  /\ session.state = STATE_READY
  /\ \E input \in PartialInputs : TelnetRead(input, NULL, Writer)

InitAgain == TelnetInit

NextInit == SetUp \/ ReadPartial \/ InitAgain

SpecInit == InitInit /\ [][NextInit]_vars

\* C13: telnet_init on a session in any state leaves the parse state READY,
\* the packet at its defaults (NOP, BINARY, IS, length 0, data all zero), no
\* option bit set, no subnegotiation reply registered and no user data; a
\* second telnet_init leaves the session as the first did.
C13_InitYieldsTheDefaults ==
  [][call'.op = "telnet_init"
       => /\ session'.state = STATE_READY
          /\ session'.packet.command = TELNET_NOP
          /\ session'.packet.option = TELNET_OPTION_BINARY
          /\ session'.packet.subnegotiation_type = TELNET_SE_IS
          /\ session'.packet.subnegotiation_length = 0
          /\ \A k \in 0..(SUBNEGOTIATION_DATA_SIZE - 1) :
               subnegotiation_byte(session'.packet, k) = 0
          /\ session'.options = {}
          /\ \A option \in 0..(TELNET_OPTION_MAX - 1) :
               session'.subnegotiation_options[option] = NULL
          /\ session'.user_data = NULL
          /\ (call.op = "telnet_init" => session' = session)]_vars

C13_Witness ==
  /\ call.op = "telnet_init"
  /\ session.state = STATE_READY
  /\ session.packet.subnegotiation_length = 0
  /\ session.options = {}
  /\ session.user_data = NULL

(***************************************************************************)
(* SpecArguments: telnet_read called with a length of 0, without a         *)
(* session, or with valid arguments, on a buffer of up to MaxBuffer bytes. *)
(***************************************************************************)
MaxBuffer == 3

InitArguments ==
  /\ session = telnet_init
  /\ \E input \in SeqsUpTo(DataBytes, MaxBuffer), callback \in {NULL, Ptr("accept")} :
       call = Caller([input |-> input, callback |-> callback])
  /\ Idle

ReadNothing ==
  /\ call.op = "caller"
  /\ TelnetReadCall(Ptr(session), Ptr(call.args.input), 0, call.args.callback, Writer)

ReadWithoutSession ==
  /\ call.op = "caller"
  /\ \E length \in 1..Len(call.args.input) :
       TelnetReadCall(NULL, Ptr(call.args.input), length, call.args.callback, Writer)

ReadAll ==
  /\ call.op = "caller"
  /\ TelnetReadCall(Ptr(session), Ptr(call.args.input), Len(call.args.input),
                    call.args.callback, Writer)

NextArguments == ReadNothing \/ ReadWithoutSession \/ ReadAll

SpecArguments == InitArguments /\ [][NextArguments]_vars

\* C14: telnet_read with length 0 returns 0, and telnet_read without a
\* session on a buffer of n > 0 bytes returns n; in both cases the buffer is
\* as it was and neither the callback nor the writer is invoked.
C14_NothingToRead ==
  /\ (IsRead /\ call.args.length = 0)
       => (ret = 0 /\ data = call.args.buffer /\ events = <<>>)
  /\ (IsRead /\ call.args.session = NULL /\ call.args.buffer # NULL
             /\ call.args.length > 0)
       => (ret = call.args.length /\ data = call.args.buffer /\ events = <<>>)

C14_Witness ==
  /\ IsRead
  /\ call.args.session = NULL
  /\ call.args.buffer = Ptr(<<TELNET_IAC, 97>>)
  /\ call.args.length = 2
  /\ call.args.callback # NULL
  /\ ret = 2

(***************************************************************************)
(* SpecCommands: the peer sends one two-byte command IAC <c>, for every    *)
(* byte c that is not a negotiation command, SB or IAC, or one             *)
(* subnegotiation; the application has registered a reply for BINARY or    *)
(* not and reads with a callback or none.                                  *)
(***************************************************************************)
CommandBytes == (0..255) \ (NegotiationCommands \cup {TELNET_SB, TELNET_IAC})

CommandInputs ==
  {<<TELNET_IAC, c>> : c \in CommandBytes}
  \cup {<<TELNET_IAC, TELNET_SB, first>> \o rest \o <<TELNET_IAC, TELNET_SE>> :
          first \in {TELNET_SE_IS, TELNET_SE_SEND, TELNET_OPTION_TERMINAL_TYPE},
          rest \in {<<>>, <<TELNET_SE_SEND>>}}

InitCommands ==
  /\ \E replies \in SUBSET {TELNET_OPTION_BINARY} : session = Configured({}, replies)
  /\ \E input \in CommandInputs, callback \in {NULL, Ptr("accept"), Ptr("reject")} :
       call = Caller([input |-> input, callback |-> callback])
  /\ Idle

ReadCommand ==
  /\ call.op = "caller"
  /\ TelnetRead(call.args.input, call.args.callback, Writer)

NextCommands == ReadCommand

SpecCommands == InitCommands /\ [][NextCommands]_vars

\* The handler's switch has no reply for the packet.
Unanswerable(packet) ==
  \/ packet.command \notin NegotiationCommands \cup {TELNET_SB}
  \/ packet.command = TELNET_SB /\ packet.subnegotiation_type # TELNET_SE_SEND

\* C15: without a callback, a completed packet whose command is none of
\* WILL, WONT, DO, DONT, SB, and an SB packet whose subnegotiation type is not
\* SEND, causes no writer call; with a callback, the callback is invoked
\* exactly once for that packet.
C15_OtherCommandsAreNotAnswered ==
  IsRead =>
    \A k \in 1..Len(events) :
      (events[k].kind = "dispatch" /\ Unanswerable(events[k].packet))
        => IF call.args.callback = NULL
             THEN k = Len(events) \/ events[k + 1].kind = "dispatch"
             ELSE /\ k < Len(events)
                  /\ events[k + 1].kind = "callback"
                  /\ events[k + 1].packet = events[k].packet
                  /\ (k + 1 = Len(events) \/ events[k + 2].kind # "callback")

C15_Witness ==
  /\ IsRead
  /\ call.args.input = <<TELNET_IAC, TELNET_AYT>>
  /\ call.args.callback = Ptr("accept")
  /\ Len(events) = 2
  /\ events[1].packet.command = TELNET_AYT
  /\ events[2].kind = "callback"

(***************************************************************************)
(* SpecWritePacket: the application builds a packet and sends it with      *)
(* telnet_write_packet.  The subnegotiation data are up to MaxPacketData   *)
(* bytes or fill the array.                                                *)
(***************************************************************************)
MaxPacketData == 3

PacketCommands == NegotiationCommands \cup {TELNET_SB, TELNET_NOP, TELNET_AYT, TELNET_SE}

PacketData ==
  SeqsUpTo({120, TELNET_IAC}, MaxPacketData) \cup {Fill(SUBNEGOTIATION_DATA_SIZE, 120)}

Packets ==
  {[command |-> command, option |-> option, subnegotiation_type |-> type,
    subnegotiation_length |-> Len(bytes), subnegotiation_data |-> bytes] :
     command \in PacketCommands,
     option \in {TELNET_OPTION_BINARY, TELNET_OPTION_TERMINAL_TYPE},
     type \in {TELNET_SE_IS, TELNET_SE_SEND},
     bytes \in PacketData}

InitWritePacket ==
  /\ session = telnet_init
  /\ \E packet \in Packets : call = Caller([packet |-> packet])
  /\ Idle

WritePacket ==
  /\ call.op = "caller"
  /\ TelnetWritePacket(call.args.packet, Writer)

NextWritePacket == WritePacket

SpecWritePacket == InitWritePacket /\ [][NextWritePacket]_vars

IsWritePacket == call.op = "telnet_write_packet"

C17_WritePacketEscapesTheData ==
  (IsWritePacket /\ call.args.packet.command = TELNET_SB)
    => EventsOf("writer") =
         <<WriterEvent(<<TELNET_IAC, TELNET_SB, call.args.packet.option,
                         call.args.packet.subnegotiation_type>>
                       \o Escaped(call.args.packet.subnegotiation_data)
                       \o <<TELNET_IAC, TELNET_SE>>)>>

(***************************************************************************)
(* SpecStep: one step of the reader.  A first read takes the session into  *)
(* each of the six parse states; the next read is of one byte, any of the  *)
(* 256.                                                                    *)
(***************************************************************************)
Prefixes ==
  {<<>>,
   <<TELNET_IAC>>,
   <<TELNET_IAC, TELNET_DO>>,
   <<TELNET_IAC, TELNET_SB>>,
   <<TELNET_IAC, TELNET_SB, TELNET_OPTION_TERMINAL_TYPE>>,
   <<TELNET_IAC, TELNET_SB, TELNET_OPTION_TERMINAL_TYPE, TELNET_SE_SEND>>,
   <<TELNET_IAC, TELNET_SB, TELNET_OPTION_TERMINAL_TYPE, TELNET_IAC>>,
   <<TELNET_IAC, TELNET_SB, TELNET_OPTION_TERMINAL_TYPE, TELNET_SE_SEND, TELNET_IAC>>}

InitStep ==
  /\ session = telnet_init
  /\ \E prefix \in Prefixes, callback \in {NULL, Ptr("accept")} :
       call = Caller([input |-> prefix, callback |-> callback])
  /\ Idle

ReadPrefix ==
  /\ call.op = "caller"
  /\ TelnetRead(call.args.input, call.args.callback, Writer)

\* The read before was the first, of a prefix from READY.
ReadByte ==
  /\ IsRead
  /\ call.args.input \in Prefixes
  /\ call.args.state = STATE_READY
  /\ \E c \in 0..255 : TelnetRead(<<c>>, call.args.callback, Writer)

NextStep == ReadPrefix \/ ReadByte

SpecStep == InitStep /\ [][NextStep]_vars

\* A row of the transition table: the next state, whether the byte is
\* deleted, the packet field written, whether the packet is dispatched and
\* whether it is initialised after the dispatch.
Row(next, delete, field, dispatches, initialises) ==
  [next |-> next, delete |-> delete, field |-> field, dispatches |-> dispatches,
   initialises |-> initialises]

\* The table's row for the state and the byte c; escaped_IAC_field is the
\* field its row for IAC in IN_COMMAND writes.
TransitionTable(state, c, escaped_IAC_field) ==
  CASE state = STATE_READY ->
         IF c = TELNET_IAC THEN Row(STATE_IN_COMMAND, TRUE, "none", FALSE, FALSE)
                           ELSE Row(STATE_READY, FALSE, "none", FALSE, FALSE)
    [] state = STATE_IN_COMMAND ->
         IF c = TELNET_IAC THEN Row(STATE_READY, FALSE, escaped_IAC_field, FALSE, FALSE)
         ELSE IF c \in NegotiationCommands
           THEN Row(STATE_IN_OPTION, TRUE, "command", FALSE, FALSE)
         ELSE IF c = TELNET_SB
           THEN Row(STATE_IN_SUBNEGOTIATION_TYPE, TRUE, "command", FALSE, FALSE)
         ELSE Row(STATE_READY, TRUE, "command", TRUE, FALSE)
    [] state = STATE_IN_OPTION -> Row(STATE_READY, TRUE, "option", TRUE, FALSE)
    [] state = STATE_IN_SUBNEGOTIATION_TYPE ->
         Row(STATE_IN_SUBNEGOTIATION_VALUE, TRUE, "subnegotiation_type", FALSE, FALSE)
    [] state = STATE_IN_SUBNEGOTIATION_VALUE ->
         IF c = TELNET_IAC THEN Row(STATE_IN_SB_IAC, TRUE, "none", FALSE, FALSE)
                           ELSE Row(STATE_IN_SUBNEGOTIATION_VALUE, TRUE, "append", FALSE, FALSE)
    [] state = STATE_IN_SB_IAC ->
         IF c = TELNET_IAC
           THEN Row(STATE_IN_SUBNEGOTIATION_VALUE, TRUE, "append", FALSE, FALSE)
         ELSE IF c = TELNET_SE THEN Row(STATE_READY, TRUE, "none", TRUE, FALSE)
         ELSE Row(STATE_IN_COMMAND, FALSE, "none", TRUE, TRUE)

\* The packet with the field written from the byte c.
WithField(packet, field, c) ==
  CASE field = "command" -> [packet EXCEPT !.command = c]
    [] field = "option" -> [packet EXCEPT !.option = c]
    [] field = "subnegotiation_type" -> [packet EXCEPT !.subnegotiation_type = c]
    [] field = "append" ->
         [packet EXCEPT !.subnegotiation_data = Append(@, c),
                        !.subnegotiation_length = @ + 1]
    [] OTHER -> packet

\* The step from the unprimed to the primed state is a read of the one byte c
\* and does what the row says.
StepFollows(row, c) ==
  /\ session'.state = row.next
  /\ ret' = IF row.delete THEN 0 ELSE 1
  /\ ~row.delete => Deref(data')[1] = c
  /\ session'.packet = IF row.initialises THEN telnet_init_packet
                       ELSE WithField(session.packet, row.field, c)
  /\ IF row.dispatches
       THEN /\ events' # <<>>
            /\ events'[1] = DispatchEvent(WithField(session.packet, row.field, c))
            /\ \A k \in 2..Len(events') : events'[k].kind # "dispatch"
       ELSE events' = <<>>

OneByteRead == call'.op = "telnet_read" /\ Len(call'.args.input) = 1

MaxInterrupted == 2

InterruptingCommands == NegotiationCommands \cup {TELNET_NOP, TELNET_AYT}

InterruptingOptions == {TELNET_OPTION_ECHO, TELNET_OPTION_TERMINAL_TYPE}

InterruptedBy(first, rest, command, option) ==
  <<TELNET_IAC, TELNET_SB, first>> \o rest \o <<TELNET_IAC, command>>
  \o (IF command \in NegotiationCommands THEN <<option>> ELSE <<>>)

InitInterrupted ==
  /\ \E supported \in SUBSET {TELNET_OPTION_ECHO} : session = Configured(supported, {})
  /\ \E first \in {TELNET_SE_IS, TELNET_SE_SEND},
        rest \in SeqsUpTo({120}, MaxInterrupted),
        command \in InterruptingCommands,
        option \in InterruptingOptions,
        callback \in {NULL, Ptr("accept")} :
       call = Caller([input |-> InterruptedBy(first, rest, command, option),
                      callback |-> callback])
  /\ Idle

ReadInterrupted ==
  /\ call.op = "caller"
  /\ TelnetRead(call.args.input, call.args.callback, Writer)

NextInterrupted == ReadInterrupted

SpecInterrupted == InitInterrupted /\ [][NextInterrupted]_vars

\* The reply of the negotiation policy to the command for the option.
PolicyReply(command, option) ==
  CASE command = TELNET_WILL -> IF option \in session.options THEN TELNET_DO ELSE TELNET_DONT
    [] command = TELNET_DO -> IF option \in session.options THEN TELNET_WILL ELSE TELNET_WONT
    [] command = TELNET_WONT -> TELNET_DONT
    [] command = TELNET_DONT -> TELNET_WONT

\* The read has dispatched the subnegotiation packet once and then the packet
\* of the interrupting command, read into an initialised packet, has answered
\* a negotiation by the policy and has left no byte as payload.
InterruptingCommandIsRead(command, option) ==
  /\ Len(EventsOf("dispatch")) = 2
  /\ EventsOf("dispatch")[1].packet.command = TELNET_SB
  /\ EventsOf("dispatch")[2].packet =
       [telnet_init_packet EXCEPT
          !.command = command,
          !.option = IF command \in NegotiationCommands THEN option ELSE @]
  /\ EventsOf("writer") =
       IF command \in NegotiationCommands
         THEN <<WriterEvent(Negotiation(PolicyReply(command, option), option))>>
         ELSE <<>>
  /\ ret = 0
  /\ session.state = STATE_READY

\* C19: when IAC and a byte that is neither IAC nor SE interrupt a
\* subnegotiation, the packet in progress is dispatched exactly once as it
\* is, the packet is initialised, and the byte is then read under IN_COMMAND
\* as the command of the new control sequence: IAC SB T d IAC DO O dispatches
\* the SB packet and then a DO O packet answered by the negotiation policy.
C19_InterruptingCommandIsRead ==
  \A first \in {TELNET_SE_IS, TELNET_SE_SEND}, rest \in SeqsUpTo({120}, MaxInterrupted),
     command \in InterruptingCommands, option \in InterruptingOptions :
    (IsRead /\ call.args.input = InterruptedBy(first, rest, command, option))
      => InterruptingCommandIsRead(command, option)

\* The spans of the writer calls for the bytes after the run read so far: for
\* each 0xFF the run ending at it and then the escape, and the last run.
RECURSIVE RunsAndEscapes(_, _)
RunsAndEscapes(bytes, run) ==
  IF bytes = <<>> THEN <<run>>
  ELSE IF Head(bytes) = TELNET_IAC
    THEN <<run \o <<TELNET_IAC>>, <<TELNET_IAC, TELNET_IAC>>>>
         \o RunsAndEscapes(Tail(bytes), <<>>)
  ELSE RunsAndEscapes(Tail(bytes), run \o <<Head(bytes)>>)

MaxChunked == 5

ChunkBytes == {TELNET_IAC, TELNET_SB, TELNET_SE, TELNET_WONT}

InitChunks ==
  /\ session = telnet_init
  /\ \E stream \in SeqsUpTo(ChunkBytes, MaxChunked) \ {<<>>} :
       \E cut \in 0..Len(stream) :
         call = Caller([input |-> SubSeq(stream, 1, cut),
                        rest |-> SubSeq(stream, cut + 1, Len(stream)),
                        callback |-> Ptr("accept")])
  /\ Idle

NothingEarlier == [input |-> <<>>, payload |-> <<>>, events |-> <<>>]

ReadFirst ==
  /\ call.op = "caller"
  /\ TelnetReadOfStream(call.args.input, Ptr(call.args.rest), NothingEarlier,
                        call.args.callback, Writer)

ReadSecond ==
  /\ IsRead
  /\ call.args.rest # NULL
  /\ TelnetReadOfStream(Deref(call.args.rest), NULL,
                        [input |-> call.args.input, payload |-> Payload,
                         events |-> events],
                        call.args.callback, Writer)

NextChunks == ReadFirst \/ ReadSecond

SpecChunks == InitChunks /\ [][NextChunks]_vars

\* C21: telnet_read ends on every input from every parse state: its loop
\* runs exactly as many iterations as the input has bytes, also when bytes
\* are deleted at index 0, and the length it returns is between 0 and the
\* input's length.
C21_ReadRunsOncePerByte ==
  IsRead => /\ call.args.steps = Len(call.args.input)
            /\ ret \in 0..Len(call.args.input)

C21_Witness ==
  /\ IsRead
  /\ call.args.state = STATE_IN_COMMAND
  /\ call.args.input = <<TELNET_WONT, TELNET_SE, TELNET_SB>>
  /\ call.args.steps = 3
  /\ ret = 1

\* What one read of the whole stream does to a session just initialised.
WholeRead(stream, callback) ==
  telnet_read(Ptr(telnet_init), Ptr(stream), Len(stream), callback, Writer,
              UBNone(telnet_init))

\* The two reads have done what the whole read does.
SameAsWhole(whole) ==
  /\ call.args.earlier.payload \o Payload = SubSeq(Deref(whole.data), 1, whole.ret)
  /\ call.args.earlier.events \o events = whole.events
  /\ session = Deref(whole.session)

\* C25: reading a stream in two buffers, cut at any place, leaves the same
\* payload, makes the same callback and writer calls in the same order with
\* the same packets and spans, and leaves the same session as reading it in
\* one buffer; a control sequence cut by the buffers is read as if whole.
C25_ChunkingInvariance ==
  (IsRead /\ call.args.rest = NULL)
    => SameAsWhole(WholeRead(call.args.earlier.input \o call.args.input,
                             call.args.callback))

C25_Witness ==
  /\ IsRead
  /\ call.args.rest = NULL
  /\ call.args.earlier.input = <<TELNET_SE, TELNET_IAC>>
  /\ call.args.input = <<TELNET_WONT, TELNET_SB, TELNET_SE>>
  /\ call.args.earlier.payload = <<TELNET_SE>>
  /\ Payload = <<TELNET_SE>>
  /\ EventsOf("writer") = <<WriterEvent(Negotiation(TELNET_DONT, TELNET_SB))>>

(***************************************************************************)
(* SpecReplies: the application registers a reply of up to MaxReplyExcess  *)
(* bytes more than subnegotiation_data holds, and the peer sends a         *)
(* subnegotiation the reader takes for a request for it.                   *)
(***************************************************************************)
MaxReplyExcess == 11

\* The byte after SB is stored as the type, and the option stays BINARY.
RequestAsRead == <<TELNET_IAC, TELNET_SB, TELNET_SE_SEND, TELNET_IAC, TELNET_SE>>

InitReplies ==
  /\ session = telnet_init
  /\ \E n \in 0..(SUBNEGOTIATION_DATA_SIZE + MaxReplyExcess) :
       call = Caller([reply |-> Fill(n, 120)])
  /\ Idle

RegisterReply ==
  /\ call.op = "caller"
  /\ TelnetSetSubnegotiationOption(TELNET_OPTION_BINARY, Ptr(call.args.reply))

ReadRequest ==
  /\ call.op = "telnet_set_subnegotiation_option"
  /\ TelnetRead(RequestAsRead, NULL, Writer)

NextReplies == RegisterReply \/ ReadRequest

SpecReplies == InitReplies /\ [][NextReplies]_vars

\* C22: every packet that reaches telnet_write_packet, the automatic reply
\* built from a registered reply of any length included, has at most 64
\* data bytes and is serialised in at most the 80 bytes of the local buffer;
\* no copy into the reply packet's data or into the buffer goes past its end.
C22_RepliesWithinCapacity ==
  IsRead => /\ UB_REPLY_OVERFLOW \notin undefined
            /\ UB_BUFFER_OVERFLOW \notin undefined
            /\ \A k \in 1..Len(events) :
                 events[k].kind = "writer" => Len(events[k].span) <= WRITE_BUFFER_SIZE

(***************************************************************************)
(* SpecUnknown: the peer negotiates an option that is not one of the 50    *)
(* enumerated, and may go on with a subnegotiation the reader takes for a  *)
(* request.                                                                *)
(***************************************************************************)
UnknownOptions == TELNET_OPTION_MAX..255

InitUnknown ==
  /\ session = telnet_init
  /\ \E command \in NegotiationCommands, option \in UnknownOptions,
        tail \in {<<>>, RequestAsRead}, callback \in {NULL, Ptr("accept")} :
       call = Caller([input |-> Negotiation(command, option) \o tail,
                      callback |-> callback])
  /\ Idle

ReadUnknown ==
  /\ call.op = "caller"
  /\ TelnetRead(call.args.input, call.args.callback, Writer)

NextUnknown == ReadUnknown

SpecUnknown == InitUnknown /\ [][NextUnknown]_vars

\* C23: a negotiation command with an option byte that is not one of the 50
\* enumerated options is delivered to the callback with the option as
\* received and gets no automatic reply.
C23_UnknownOptionIsNotAnswered ==
  \A command \in NegotiationCommands, option \in UnknownOptions :
    (IsRead /\ call.args.input = Negotiation(command, option))
      => /\ EventsOf("dispatch") =
              <<DispatchEvent([telnet_init_packet EXCEPT !.command = command,
                                                         !.option = option])>>
         /\ call.args.callback # NULL
              => EventsOf("callback") =
                   <<CallbackEvent([telnet_init_packet EXCEPT !.command = command,
                                                              !.option = option], TRUE)>>
         /\ EventsOf("writer") = <<>>

\* C26: whatever the peer sends, every option index the dispatch tests in
\* the 64-bit option set is below 64 and every index it reads in the table
\* of 50 replies is below 50: no shift and no table read is out of range.
C26_OptionIndicesInRange ==
  /\ UB_SHIFT \notin undefined
  /\ UB_TABLE_READ \notin undefined

(***************************************************************************)
(* SpecInvalid: telnet_read called with an argument missing: without a     *)
(* buffer, without a session, or with a length of 0, next to the call with *)
(* all of them.                                                            *)
(***************************************************************************)
ReadWithoutBuffer ==
  /\ call.op = "caller"
  /\ \E length \in 1..MaxBuffer :
       TelnetReadCall(Ptr(session), NULL, length, call.args.callback, Writer)

NextInvalid == ReadWithoutBuffer \/ ReadWithoutSession \/ ReadNothing \/ ReadAll

SpecInvalid == InitArguments /\ [][NextInvalid]_vars

\* A call of telnet_read without a session, without a buffer or with a
\* length of 0.
InvalidRead ==
  /\ IsRead
  /\ (call.args.session = NULL \/ call.args.buffer = NULL \/ call.args.length = 0)

\* C24: every call of telnet_read with an invalid argument does nothing and
\* returns the length it was given: without a buffer and with length n > 0
\* it returns n, leaves the session as it was and calls neither the callback
\* nor the writer.
C24_InvalidReadReturnsTheLength ==
  InvalidRead => /\ ret = call.args.length
                 /\ events = <<>>
                 /\ session = telnet_init

\* The command bytes of a buffer of control sequences, in input order.
CommandsSent(input) ==
  SelectSeq(input, LAMBDA c : c \in NegotiationCommands \cup {TELNET_NOP, TELNET_SB})

\* The commands of the packets dispatched, in the order of the log.
CommandsDispatched ==
  [k \in 1..Len(EventsOf("dispatch")) |-> EventsOf("dispatch")[k].packet.command]

\* The event at position k of the log is the callback asked about the
\* packet dispatched just before it.
AsksAboutDispatched(k) ==
  /\ k > 1
  /\ events[k - 1].kind = "dispatch"
  /\ events[k].packet = events[k - 1].packet

\* The event at position k of the log is the one writer call for the packet
\* completed last: it follows that packet's callback invocation, or its
\* dispatch when no callback was supplied, and carries that packet's option.
AnswersDispatched(k, callback) ==
  /\ k > 1
  /\ events[k - 1].kind = (IF callback # NULL THEN "callback" ELSE "dispatch")
  /\ events[k].span[1] = TELNET_IAC
  /\ events[k].span[3] = events[k - 1].packet.option

\* C28: within one telnet_read, each completed packet causes exactly one
\* callback invocation when a callback is supplied, then at most one writer
\* call, the callback before the writer; callbacks and replies follow the
\* order in which the packets complete in the input, and the writer calls
\* are no more than the packets dispatched.
C28_CallbackThenAtMostOneReply ==
  IsRead =>
    /\ CommandsDispatched = CommandsSent(call.args.input)
    /\ \A k \in 1..Len(events) :
         CASE events[k].kind = "dispatch" ->
                IF call.args.callback # NULL
                  THEN k < Len(events) /\ events[k + 1].kind = "callback"
                  ELSE TRUE
           [] events[k].kind = "callback" ->
                call.args.callback # NULL /\ AsksAboutDispatched(k)
           [] events[k].kind = "writer" -> AnswersDispatched(k, call.args.callback)
    /\ Len(EventsOf("writer")) <= Len(EventsOf("dispatch"))

\* Two packets are completed in one read; the callback is asked about each
\* and each is answered, in the order received.
C28_Witness ==
  /\ IsRead
  /\ call.args.input = Negotiation(TELNET_DO, TELNET_OPTION_ECHO)
                         \o Negotiation(TELNET_WILL, TELNET_OPTION_BINARY)
  /\ call.args.callback = Ptr("accept")
  /\ TELNET_OPTION_ECHO \in session.options
  /\ [k \in 1..Len(events) |-> events[k].kind]
       = <<"dispatch", "callback", "writer", "dispatch", "callback", "writer">>
  /\ Written = <<TELNET_IAC, TELNET_WILL, TELNET_OPTION_ECHO,
                 TELNET_IAC, TELNET_DONT, TELNET_OPTION_BINARY>>

(***************************************************************************)
(* SpecPacketRoundTrip: one side sends a control packet with               *)
(* telnet_write_packet and the other, a session just initialised, reads    *)
(* what the writer was handed.  The subnegotiation data hold no 0xFF.      *)
(***************************************************************************)
RoundTripPackets ==
  {[telnet_init_packet EXCEPT !.command = command, !.option = option] :
     command \in NegotiationCommands,
     option \in {TELNET_OPTION_BINARY, TELNET_OPTION_TERMINAL_TYPE}}
  \cup
  {[command |-> TELNET_SB, option |-> option, subnegotiation_type |-> type,
    subnegotiation_length |-> Len(bytes), subnegotiation_data |-> bytes] :
     option \in {TELNET_OPTION_BINARY, TELNET_OPTION_TERMINAL_TYPE},
     type \in {TELNET_SE_IS, TELNET_SE_SEND},
     bytes \in SeqsUpTo({0, 120}, MaxPacketData)
               \cup {Fill(SUBNEGOTIATION_DATA_SIZE, 120)}}

InitPacketRoundTrip ==
  /\ session = telnet_init
  /\ \E packet \in RoundTripPackets : call = Caller([packet |-> packet])
  /\ Idle

ReadPacketBack ==
  /\ IsWritePacket
  /\ TelnetReadOfStream(Written, NULL, [packet |-> call.args.packet],
                        Ptr("accept"), Writer)

NextPacketRoundTrip == WritePacket \/ ReadPacketBack

SpecPacketRoundTrip == InitPacketRoundTrip /\ [][NextPacketRoundTrip]_vars

\* C27: for a packet P with command DO, DONT, WILL, WONT or SB, reading the
\* span telnet_write_packet emits for P on a session just initialised
\* dispatches exactly one packet, with P's command, option, subnegotiation
\* type and data, returns 0 and leaves the parse state READY.
C27_PacketRoundTrip ==
  IsRead => /\ EventsOf("dispatch") = <<DispatchEvent(call.args.earlier.packet)>>
            /\ ret = 0
            /\ session.state = STATE_READY

\* The round trip of the negotiation packets.
NegotiationRoundTrip ==
  (IsRead /\ call.args.earlier.packet.command \in NegotiationCommands)
    => /\ EventsOf("dispatch") = <<DispatchEvent(call.args.earlier.packet)>>
       /\ ret = 0
       /\ session.state = STATE_READY

\* The configuration of a session: what the application sets and the
\* library consults.
Configuration(sess) ==
  [options |-> sess.options,
   subnegotiation_options |-> sess.subnegotiation_options,
   user_data |-> sess.user_data]

\* C29: telnet_read, telnet_write and telnet_write_packet leave the
\* session's option bitset, subnegotiation-response table and user_data
\* unchanged for every input, the callback not modifying them.
C29_CallsLeaveTheConfiguration ==
  [][call'.op \in {"telnet_read", "telnet_write", "telnet_write_packet"}
       => Configuration(session') = Configuration(session)]_vars

====
